---- MODULE Spec2Model ----
(***************************************************************************)
(* Model of gen-board.h.py: the MCU profile resolver (class MCU), the pin  *)
(* attribute parser and pin table builder (class Pins) and the run of      *)
(* main() up to and including the emission of the header.                  *)
(*                                                                         *)
(* Python strings are modelled as sequences of one-character strings, so   *)
(* that slicing, zip, split, strip, upper and int() are computed the way   *)
(* the interpreter computes them.  Python lists are 0-indexed; the model   *)
(* keeps them as TLA+ sequences and list[i] is sequence[i + 1].            *)
(***************************************************************************)
EXTENDS Integers, Sequences, FiniteSets, TLC

VARIABLES
    mcutype,        \* board_def['mcutype'], the requested part identifier
    types,          \* MCU._mcu_types(): catalog pattern names, listdir order
    scores,         \* the sort keys _match_names(mcutype, x), one per entry of types
    choice,         \* the catalog entry chosen by _choose_mcu_file, or NoChoice
    default_str,    \* board_def['default']
    pin_decls,      \* board_def['pins'].items(): sequence of <<name, pin_data>>
    default,        \* the dict returned for the default string
    _pins,          \* Pins._pins: port -> list of Pin records
    _pins_by_name,  \* Pins._pins_by_name: name -> Pin record
    applied,        \* number of declarations of pin_decls already processed
    parsed,         \* result of the last call of _parse_data_str
    given,          \* the data dict _parse_data_str returned for each applied declaration
    board,          \* the text blocks written to the output file so far
    outfile,        \* "unopened", "open" or "closed"
    error,          \* the failure that ended the run, or NoError
    exit_status,    \* process exit status, -1 while running
    arg_data,       \* first argument of a direct call of _parse_data_str
    arg_default,    \* its second argument
    pc              \* position of the run in main()

vars == <<mcutype, types, scores, choice, default_str, pin_decls, default,
          _pins, _pins_by_name, applied, parsed, given, board, outfile,
          error, exit_status, arg_data, arg_default, pc>>

-----------------------------------------------------------------------------
(* Bounds of the model *)

MaxNameLen == 2
MaxCatalog == 2

-----------------------------------------------------------------------------
(* Generic helpers for Python strings and lists *)

Range(s) == {s[i] : i \in 1..Len(s)}

Min(a, b) == IF a < b THEN a ELSE b

\* All sequences over S of length 0..n
SeqsUpTo(S, n) == UNION {[1..k -> S] : k \in 0..n}

\* Sequences without repeated elements
IsInjective(s) == \A i, j \in 1..Len(s) : i # j => s[i] # s[j]

NoChoice == <<"<none>">>
NoError == "none"

-----------------------------------------------------------------------------
(* class MCU *)

NameChars == {"f", "x"}

\* One step of the loop of _match_names for the pair (tc, xc); x is the WHOLE
\* pattern, which is what the source compares with "x".
MatchStep(tc, xc, x) ==
    IF tc = xc THEN 1
    ELSE IF x = <<"x">> THEN 0
    ELSE -1

RECURSIVE MatchFrom(_, _, _)
MatchFrom(test, x, i) ==
    IF i > Min(Len(test), Len(x)) THEN 0
    ELSE MatchStep(test[i], x[i], x) + MatchFrom(test, x, i + 1)

\* MCU._match_names(test, x): zip stops at the shorter of the two
_match_names(test, x) == MatchFrom(test, x, 1)

\* Mutant: equal keys are put in front, so the last of a tie is ranked first
RECURSIVE InsertDescUnstable(_, _, _)
InsertDescUnstable(ranked, x, test) ==
    IF ranked = <<>> THEN <<x>>
    ELSE IF _match_names(test, Head(ranked)) > _match_names(test, x)
         THEN <<Head(ranked)>> \o InsertDescUnstable(Tail(ranked), x, test)
         ELSE <<x>> \o ranked

\* Insertion of x into a list that is in descending key order, after every
\* element whose key is >= key(x): equal keys keep their original order.
RECURSIVE InsertDesc(_, _, _)
InsertDesc(ranked, x, test) ==
    IF ranked = <<>> THEN <<x>>
    ELSE IF _match_names(test, Head(ranked)) >= _match_names(test, x)
         THEN <<Head(ranked)>> \o InsertDesc(Tail(ranked), x, test)
         ELSE <<x>> \o ranked

\* sorted(types, key=lambda x: _match_names(mcutype, x), reverse=True):
\* a stable sort, descending by key
RECURSIVE SortedReverse(_, _)
SortedReverse(ts, test) ==
    IF ts = <<>> THEN <<>>
    ELSE InsertDesc(SortedReverse(SubSeq(ts, 1, Len(ts) - 1), test),
                    ts[Len(ts)], test)

\* MCU._choose_mcu_file: [ok, choice, error]
_choose_mcu_file(test, ts) ==
    LET rank_types == SortedReverse(ts, test) IN
    IF rank_types = <<>>
    THEN [ok |-> FALSE, choice |-> NoChoice, error |-> "IndexError"]
    ELSE LET c == rank_types[1]
             score == _match_names(test, c) IN
         IF score <= 0
         THEN [ok |-> FALSE, choice |-> NoChoice, error |-> "NoMatchingProfile"]
         ELSE [ok |-> TRUE, choice |-> c, error |-> NoError]

-----------------------------------------------------------------------------
(* Python string primitives *)

LowerChars == <<"a","b","c","d","e","f","g","h","i","j","k","l","m",
                "n","o","p","q","r","s","t","u","v","w","x","y","z">>
UpperChars == <<"A","B","C","D","E","F","G","H","I","J","K","L","M",
                "N","O","P","Q","R","S","T","U","V","W","X","Y","Z">>
DigitChars == <<"0","1","2","3","4","5","6","7","8","9">>

IndexOf(c, s) == IF c \in Range(s) THEN CHOOSE i \in 1..Len(s) : s[i] = c ELSE 0

UpperChar(c) == IF c \in Range(LowerChars) THEN UpperChars[IndexOf(c, LowerChars)] ELSE c
LowerChar(c) == IF c \in Range(UpperChars) THEN LowerChars[IndexOf(c, UpperChars)] ELSE c

\* str.upper(), str.lower()
Upper(s) == [i \in 1..Len(s) |-> UpperChar(s[i])]
Lower(s) == [i \in 1..Len(s) |-> LowerChar(s[i])]

\* str.strip(): leading and trailing blanks removed
RECURSIVE LStrip(_)
LStrip(s) == IF s # <<>> /\ Head(s) = " " THEN LStrip(Tail(s)) ELSE s
RECURSIVE RStrip(_)
RStrip(s) == IF s # <<>> /\ s[Len(s)] = " " THEN RStrip(SubSeq(s, 1, Len(s) - 1)) ELSE s
Strip(s) == RStrip(LStrip(s))

\* str.split(","): the pieces between the commas; "" gives [""]
RECURSIVE SplitFrom(_, _, _)
SplitFrom(s, i, cur) ==
    IF i > Len(s) THEN <<cur>>
    ELSE IF s[i] = "," THEN <<cur>> \o SplitFrom(s, i + 1, <<>>)
    ELSE SplitFrom(s, i + 1, Append(cur, s[i]))
Split(s) == SplitFrom(s, 1, <<>>)

\* sep.join(list)
RECURSIVE Join(_, _)
Join(sep, list) ==
    IF list = <<>> THEN <<>>
    ELSE IF Len(list) = 1 THEN list[1]
    ELSE list[1] \o sep \o Join(sep, Tail(list))

\* s[k:] with k >= 0 (0-indexed slice start)
SliceFrom(s, k) == SubSeq(s, k + 1, Len(s))
\* s[:k] with k >= 0, and s[:-k]
SliceTo(s, k) == SubSeq(s, 1, Min(k, Len(s)))
SliceDropLast(s, k) == SubSeq(s, 1, Len(s) - k)

RECURSIVE DigitsValue(_)
DigitsValue(ds) ==
    IF ds = <<>> THEN 0
    ELSE 10 * DigitsValue(SubSeq(ds, 1, Len(ds) - 1)) + (IndexOf(ds[Len(ds)], DigitChars) - 1)

IsDigits(ds) == ds # <<>> /\ \A i \in 1..Len(ds) : ds[i] \in Range(DigitChars)

\* int(s) for a decimal literal: blanks around it are ignored, one optional
\* sign, then digits; anything else raises ValueError (ok = FALSE)
ParseInt(s) ==
    LET t == Strip(s)
        signed == t # <<>> /\ Head(t) \in {"-", "+"}
        ds == IF signed THEN Tail(t) ELSE t
    IN IF ~IsDigits(ds) THEN [ok |-> FALSE, val |-> 0]
       ELSE [ok |-> TRUE,
             val |-> IF signed /\ Head(t) = "-" THEN 0 - DigitsValue(ds) ELSE DigitsValue(ds)]

\* "{}".format(n) for an integer n
RECURSIVE NatStr(_)
NatStr(n) == IF n < 10 THEN <<DigitChars[n + 1]>>
             ELSE NatStr(n \div 10) \o <<DigitChars[(n % 10) + 1]>>
IntStr(n) == IF n < 0 THEN <<"-">> \o NatStr(0 - n) ELSE NatStr(n)

-----------------------------------------------------------------------------
(* Keywords of the pin attribute strings *)

kINPUT == <<"I","N","P","U","T">>
kOUTPUT == <<"O","U","T","P","U","T">>
kANALOG == <<"A","N","A","L","O","G">>
kSTARTLOW == <<"S","T","A","R","T","L","O","W">>
kSTARTHIGH == <<"S","T","A","R","T","H","I","G","H">>
kPUSHPULL == <<"P","U","S","H","P","U","L","L">>
kOPENDRAIN == <<"O","P","E","N","D","R","A","I","N">>
kVERYLOWSPEED == <<"V","E","R","Y","L","O","W","S","P","E","E","D">>
kLOWSPEED == <<"L","O","W","S","P","E","E","D">>
kMEDIUMSPEED == <<"M","E","D","I","U","M","S","P","E","E","D">>
kHIGHSPEED == <<"H","I","G","H","S","P","E","E","D">>
kFLOATING == <<"F","L","O","A","T","I","N","G">>
kPULLUP == <<"P","U","L","L","U","P">>
kPULLDOWN == <<"P","U","L","L","D","O","W","N">>
kALTERNATE == <<"A","L","T","E","R","N","A","T","E">>

-----------------------------------------------------------------------------
(* The MCU profile loaded by MCU.__init__ from the chosen catalog file *)

PinsPerPort == 2
\* mcu_def['ports'], mcu_def['pins_per_port']
ports == <<"A", "B">>
pins_per_port == PinsPerPort

-----------------------------------------------------------------------------
(* class Pins: the parser *)

\* Op applied to the value of v: v is evaluated once, whatever the number of
\* times Op uses its argument
Bind(v, Op(_)) == CHOOSE y \in {Op(x) : x \in {v}} : TRUE

\* A Python dict is a function whose DOMAIN is the set of its keys
EmptyDict == <<>>
HasKey(d, k) == k \in DOMAIN d
\* d[k] = v
DictSet(d, k, v) == (k :> v) @@ d
\* d.update(e)
DictUpdate(d, e) == e @@ d

ModeKeywords == {kINPUT, kOUTPUT, kANALOG}
OdKeywords == {kSTARTLOW, kSTARTHIGH}
OtypeKeywords == {kPUSHPULL, kOPENDRAIN}
OspeedKeywords == {kVERYLOWSPEED, kLOWSPEED, kMEDIUMSPEED, kHIGHSPEED}
PupdKeywords == {kFLOATING, kPULLUP, kPULLDOWN}

ParseResult(st, pin, raw) == [status |-> st, pin |-> pin, raw |-> raw]

\* The first condition of the if chain, evaluated left to right with Python's
\* short-circuit "and": "yes", "no", or the exception an operand raises
PositionTest(elm) ==
    IF Len(elm) < 1 THEN "IndexError"
    ELSE IF elm[1] # "P" THEN "no"
    ELSE IF Len(elm) < 2 THEN "IndexError"
    ELSE IF elm[2] \notin Range(ports) THEN "no"
    ELSE IF ~ParseInt(SliceFrom(elm, 2)).ok THEN "ValueError"
    ELSE IF ParseInt(SliceFrom(elm, 2)).val < pins_per_port THEN "yes"
    ELSE "no"

\* Mutant: the AF branch forgets that a mode keyword may already be there
ModeAlreadySetNever(pin) == FALSE

\* The mode branch and the AF branch both start with this test
ModeAlreadySet(pin) == HasKey(pin, "mode")

\* The body of the for loop of _parse_data_str for one stripped, uppercased
\* element, given the dict and the raw list built so far
ParseElm(elm, pin, raw) ==
    LET pos == PositionTest(elm) IN
    IF pos \in {"IndexError", "ValueError"} THEN ParseResult(pos, pin, raw)
    ELSE IF pos = "yes"
    THEN ParseResult("ok",
             DictSet(DictSet(pin, "port", elm[2]),
                     "num", ParseInt(SliceFrom(elm, 2)).val),
             raw)
    ELSE IF elm \in ModeKeywords
    THEN IF ModeAlreadySet(pin) THEN ParseResult("ConflictingMode", pin, raw)
         ELSE ParseResult("ok", DictSet(DictSet(pin, "mode", elm), "af", 0),
                          Append(raw, elm))
    ELSE IF elm \in OdKeywords
    THEN ParseResult("ok", DictSet(pin, "od", SliceFrom(elm, 5)), Append(raw, elm))
    ELSE IF elm \in OtypeKeywords
    THEN ParseResult("ok", DictSet(pin, "otype", elm), Append(raw, elm))
    ELSE IF elm \in OspeedKeywords
    THEN ParseResult("ok", DictSet(pin, "ospeed", SliceDropLast(elm, 5)), Append(raw, elm))
    ELSE IF elm \in PupdKeywords
    THEN ParseResult("ok", DictSet(pin, "pupd", elm), Append(raw, elm))
    ELSE IF SliceTo(elm, 2) = <<"A", "F">>
    THEN IF ModeAlreadySet(pin) THEN ParseResult("ConflictingMode", pin, raw)
         ELSE IF ~ParseInt(SliceFrom(elm, 2)).ok THEN ParseResult("ValueError", pin, raw)
         ELSE ParseResult("ok",
                  DictSet(DictSet(pin, "mode", kALTERNATE),
                          "af", ParseInt(SliceFrom(elm, 2)).val),
                  Append(raw, elm))
    ELSE ParseResult("UnknownKeyword", pin, raw)

\* The for loop over pin_data.split(","): stops at the first failure.
\* acc is the result of the elements before elms[i].
RECURSIVE ParseLoop(_, _, _)
ParseLoop(elms, i, acc) ==
    IF i > Len(elms) \/ acc.status # "ok" THEN acc
    ELSE Bind(ParseElm(Upper(Strip(elms[i])), acc.pin, acc.raw),
              LAMBDA r : ParseLoop(elms, i + 1, r))

\* Mutant: the check of the pull family is left out
DefaultCheckNoPupd(pin) ==
    IF ~HasKey(pin, "mode") THEN "IncompleteDefault"
    ELSE IF ~HasKey(pin, "od") THEN "IncompleteDefault"
    ELSE IF ~HasKey(pin, "otype") THEN "IncompleteDefault"
    ELSE IF ~HasKey(pin, "ospeed") THEN "IncompleteDefault"
    ELSE IF HasKey(pin, "port") THEN "DefaultHasPosition"
    ELSE "ok"

\* Pins._default_check_data: the failure it exits with, or "ok"
_default_check_data(pin) ==
    IF ~HasKey(pin, "mode") THEN "IncompleteDefault"
    ELSE IF ~HasKey(pin, "od") THEN "IncompleteDefault"
    ELSE IF ~HasKey(pin, "otype") THEN "IncompleteDefault"
    ELSE IF ~HasKey(pin, "ospeed") THEN "IncompleteDefault"
    ELSE IF ~HasKey(pin, "pupd") THEN "IncompleteDefault"
    ELSE IF HasKey(pin, "port") THEN "DefaultHasPosition"
    ELSE "ok"

\* Pins._parse_data_str(pin_data, default)
\* The end of _parse_data_str, after the loop has given r
ParseEnd(r, isdefault) ==
    IF r.status # "ok" THEN r
    ELSE IF isdefault /\ _default_check_data(r.pin) # "ok"
         THEN ParseResult(_default_check_data(r.pin), r.pin, r.raw)
    ELSE r

_parse_data_str(pin_data, isdefault) ==
    Bind(ParseLoop(Split(pin_data), 1, ParseResult("ok", EmptyDict, <<>>)),
         LAMBDA r : ParseEnd(r, isdefault))

-----------------------------------------------------------------------------
(* class Pins: the pin table *)

PinFields == {"name", "port", "num", "mode", "od", "otype", "ospeed", "pupd", "af", "raw"}

\* Pins._Pin(**kwargs): the namedtuple constructor raises TypeError unless
\* it is given exactly its fields
MakePin(kwargs) ==
    IF DOMAIN kwargs = PinFields THEN [ok |-> TRUE, pin |-> kwargs]
    ELSE [ok |-> FALSE, pin |-> kwargs]

\* list[i] = v: a negative i counts from the end, out of range is IndexError
ListSetItem(list, i, v) ==
    IF 0 <= i /\ i < Len(list) THEN [ok |-> TRUE, list |-> [list EXCEPT ![i + 1] = v]]
    ELSE IF i < 0 /\ 0 - Len(list) <= i
         THEN [ok |-> TRUE, list |-> [list EXCEPT ![Len(list) + i + 1] = v]]
    ELSE [ok |-> FALSE, list |-> list]

\* The record that seeds position (port, n):
\* _Pin(name="PIN{}".format(n), port=port, num=n, raw="unused", **default)
SeedPin(port, n, dflt) ==
    MakePin(DictUpdate(
        [name |-> <<"P", "I", "N">> \o IntStr(n), port |-> port, num |-> n,
         raw |-> <<"u", "n", "u", "s", "e", "d">>],
        dflt))

\* The dict comprehension of Pins.__init__ that builds self._pins
SeedTable(dflt) ==
    [port \in Range(ports) |->
        [k \in 1..pins_per_port |-> SeedPin(port, k - 1, dflt).pin]]

\* Pins._parse_pin_data(name, pin_data, default): [status, pin]
\* Mutant: a declaration without position token takes its position from
\* its name when the name reads as one
PinFromDataOrName(pin0, r) ==
    IF r.status # "ok" THEN [status |-> r.status, pin |-> pin0]
    ELSE Bind(DictSet(DictUpdate(
                  IF PositionTest(pin0.name) = "yes"
                  THEN DictSet(DictSet(pin0, "port", pin0.name[2]),
                               "num", ParseInt(SliceFrom(pin0.name, 2)).val)
                  ELSE pin0,
                  r.pin), "raw", Lower(Join(<<",", " ">>, r.raw))),
              LAMBDA pin1 : IF MakePin(pin1).ok THEN [status |-> "ok", pin |-> pin1]
                            ELSE [status |-> "TypeError", pin |-> pin1])

\* The rest of _parse_pin_data once _parse_data_str has returned r and
\* pin0 is the dict made of the name and the default
PinFromData(pin0, r) ==
    IF r.status # "ok" THEN [status |-> r.status, pin |-> pin0]
    ELSE Bind(DictSet(DictUpdate(pin0, r.pin), "raw", Lower(Join(<<",", " ">>, r.raw))),
              LAMBDA pin1 : IF MakePin(pin1).ok THEN [status |-> "ok", pin |-> pin1]
                            ELSE [status |-> "TypeError", pin |-> pin1])

_parse_pin_data(name, data_str, dflt) ==
    Bind(_parse_data_str(data_str, FALSE),
         LAMBDA r : PinFromData(DictUpdate([name |-> Upper(name)], dflt), r))

\* Mutant: the attributes of the record already at the target position are
\* kept where the declaration gives none (merge instead of override)
StorePinMerging(table, pin) ==
    LET r == ListSetItem(table[pin.port], pin.num, pin)
        old == IF 0 <= pin.num THEN table[pin.port][pin.num + 1]
               ELSE table[pin.port][Len(table[pin.port]) + pin.num + 1]
    IN IF ~r.ok THEN [ok |-> FALSE, table |-> table]
       ELSE [ok |-> TRUE,
             table |-> [table EXCEPT ![pin.port] =
                          ListSetItem(table[pin.port], pin.num,
                                      [pin EXCEPT !.od = old.od]).list]]

\* Mutant: the record is appended to the port's list instead of replacing
\* the entry at its index
StorePinAppending(table, pin) ==
    [ok |-> TRUE, table |-> [table EXCEPT ![pin.port] = Append(@, pin)]]

\* self._pins[pin.port][pin.num] = pin
StorePin(table, pin) ==
    LET r == ListSetItem(table[pin.port], pin.num, pin) IN
    IF ~r.ok THEN [ok |-> FALSE, table |-> table]
    ELSE [ok |-> TRUE, table |-> [table EXCEPT ![pin.port] = r.list]]

-----------------------------------------------------------------------------
(* Ordering of strings, for sorted() *)

AsciiOrder == <<" ", "+", ",", "-">> \o DigitChars \o UpperChars \o <<"_">> \o LowerChars

Ord(c) == IndexOf(c, AsciiOrder)

RECURSIVE StrLess(_, _)
StrLess(a, b) ==
    IF b = <<>> THEN FALSE
    ELSE IF a = <<>> THEN TRUE
    ELSE IF Ord(Head(a)) # Ord(Head(b)) THEN Ord(Head(a)) < Ord(Head(b))
    ELSE StrLess(Tail(a), Tail(b))

\* sorted(S) for a set of distinct strings
RECURSIVE SortedStrings(_)
SortedStrings(S) ==
    IF S = {} THEN <<>>
    ELSE LET m == CHOOSE x \in S : \A y \in S : x = y \/ StrLess(x, y)
         IN <<m>> \o SortedStrings(S \ {m})

\* Pins.iter_ports(): sorted(iter(self._pins))
iter_ports(table) == SortedStrings({<<p>> : p \in DOMAIN table})

\* Concatenation of the sequences f[1], ..., f[n]
RECURSIVE Flatten(_)
Flatten(ss) == IF ss = <<>> THEN <<>> ELSE Head(ss) \o Flatten(Tail(ss))

Max(a, b) == IF a > b THEN a ELSE b

-----------------------------------------------------------------------------
(* The emitter: what each write_* function writes, as a sequence of lines. *)
(* A line is a tuple of its pieces; pad is the number of blanks of the     *)
(* " "*(...) expression (a negative count gives no blank).                 *)

\* write_io_pins
IoPinLine(pin) ==
    <<"#define GPIO", pin.port, "_", pin.name,
      Max(0, 39 - 14 - Len(pin.name)), IntStr(pin.num), "U">>

write_io_pins(table) ==
    <<<<"/* IO pins assignments. */">>>> \o
    Flatten([i \in 1..Len(iter_ports(table)) |->
        LET port == iter_ports(table)[i][1] IN
        [k \in 1..Len(table[port]) |-> IoPinLine(table[port][k])] \o <<<<"">>>>])

\* write_io_lines
IoLineLine(pin) ==
    <<"#define LINE_", pin.name, Max(0, 39 - 13 - Len(pin.name)),
      "PAL_LINE(GPIO", pin.port, IntStr(pin.num), "U)">>

write_io_lines(by_name) ==
    LET names == SortedStrings(DOMAIN by_name) IN
    <<<<"/* IO lines assignments. */">>>> \o
    [i \in 1..Len(names) |-> IoLineLine(by_name[names[i]])] \o <<<<"">>>>

\* write_io_ports
\* the register names of the for loop, each with mode.lower(), the Pin field
RegisterNames == <<<<"MODE", "mode">>, <<"OTYPE", "otype">>, <<"OSPEED", "ospeed">>,
                   <<"PUPD", "pupd">>, <<"OD", "od">>>>

PortCommentLine(pin) == <<" * P", pin.port, IntStr(pin.num), "- ", pin.name, pin.raw>>

RegisterLine(port, reg, pinlist) ==
    <<"#define VAL_GPIO", port, "_", reg[1], "R",
      [k \in 1..Len(pinlist) |-> <<"PIN_", reg[1], "_", pinlist[k][reg[2]], "(GPIO",
                                   pinlist[k].port, "_", pinlist[k].name, ")">>]>>

AfTerms(port, pinlist, high) ==
    SelectSeq([k \in 1..Len(pinlist) |->
                  <<"PIN_AFIO_AF", port, pinlist[k].name, pinlist[k].af, pinlist[k].num>>],
              LAMBDA t : IF high THEN t[5] >= 8 ELSE t[5] < 8)

PortBlock(port, pinlist) ==
    <<<<"/* GPIO setup:", port>>>> \o
    [k \in 1..Len(pinlist) |-> PortCommentLine(pinlist[k])] \o
    <<<<"*/">>>> \o
    [r \in 1..Len(RegisterNames) |-> RegisterLine(port, RegisterNames[r], pinlist)] \o
    <<<<"#define VAL_GPIO", port, "_AFRL", AfTerms(port, pinlist, FALSE)>>,
      <<"#define VAL_GPIO", port, "_AFRH", AfTerms(port, pinlist, TRUE)>>,
      <<"">>>>

write_io_ports(table) ==
    Flatten([i \in 1..Len(iter_ports(table)) |->
        PortBlock(iter_ports(table)[i][1], table[iter_ports(table)[i][1]])])

-----------------------------------------------------------------------------
(* The run of main() *)

NoParse == ParseResult("none", EmptyDict, <<>>)

\* sys.exit(1) after the error message, or an uncaught exception
Exit(err) ==
    /\ error' = err
    /\ exit_status' = 1
    /\ pc' = "exit"

\* Pins.__init__, first statement: self.mcu = MCU(board_def['mcutype'])
ResolveMcu ==
    /\ pc = "start"
    /\ \E r \in {_choose_mcu_file(mcutype, types)} :
       /\ scores' = [i \in 1..Len(types) |-> _match_names(mcutype, types[i])]
       /\ choice' = r.choice
       /\ IF r.ok
          THEN pc' = "default" /\ UNCHANGED <<error, exit_status>>
          ELSE Exit(r.error)
    /\ UNCHANGED <<mcutype, types, default_str, pin_decls, default, _pins,
                   _pins_by_name, applied, parsed, given, board, outfile,
                   arg_data, arg_default>>

\* Pins.__init__: the default string is parsed and every position of the
\* table is seeded with it
SeedPins ==
    /\ pc = "default"
    /\ \E r \in {_parse_data_str(default_str, TRUE)} :
       /\ parsed' = r
       /\ IF r.status = "ok"
          THEN /\ default' = r.pin
               /\ _pins' = SeedTable(r.pin)
               /\ _pins_by_name' = EmptyDict
               /\ pc' = "pins"
               /\ UNCHANGED <<error, exit_status>>
          ELSE /\ Exit(r.status)
               /\ UNCHANGED <<default, _pins, _pins_by_name>>
    /\ UNCHANGED <<mcutype, types, scores, choice, default_str, pin_decls,
                   applied, given, board, outfile, arg_data, arg_default>>

\* One iteration of the loop over board_def['pins'].items()
ApplyPin ==
    /\ pc = "pins"
    /\ applied < Len(pin_decls)
    /\ \E r \in {_parse_pin_data(pin_decls[applied + 1][1],
                                 pin_decls[applied + 1][2], default)} :
       \E st \in {IF r.status = "ok" THEN StorePin(_pins, r.pin)
                  ELSE [ok |-> FALSE, table |-> _pins]} :
       \E data \in {_parse_data_str(pin_decls[applied + 1][2], FALSE)} :
       /\ parsed' = data
       /\ IF r.status # "ok"
          THEN Exit(r.status) /\ UNCHANGED <<_pins, _pins_by_name, applied, given>>
          ELSE IF ~st.ok
          THEN Exit("IndexError") /\ UNCHANGED <<_pins, _pins_by_name, applied, given>>
          ELSE /\ _pins' = st.table
               /\ _pins_by_name' = DictSet(_pins_by_name, r.pin.name, r.pin)
               /\ applied' = applied + 1
               /\ given' = Append(given, data.pin)
               /\ UNCHANGED <<error, exit_status, pc>>
    /\ UNCHANGED <<mcutype, types, scores, choice, default_str, pin_decls,
                   default, board, outfile, arg_data, arg_default>>

\* Mutant: the output is opened without waiting for the end of the loop
PinsBuiltAnyway == TRUE

\* pins = Pins(board_def) has returned: the loop over the declarations is over
PinsBuilt == applied = Len(pin_decls)

\* with open(args.outfile, "w") as board
OpenOutfile ==
    /\ pc = "pins"
    /\ PinsBuilt
    /\ outfile' = "open"
    /\ board' = <<>>
    /\ pc' = "header"
    /\ UNCHANGED <<mcutype, types, scores, choice, default_str, pin_decls,
                   default, _pins, _pins_by_name, applied, parsed, given,
                   error, exit_status, arg_data, arg_default>>

Write(at, lines, next) ==
    /\ pc = at
    /\ outfile = "open"
    /\ board' = board \o lines
    /\ pc' = next
    /\ UNCHANGED <<mcutype, types, scores, choice, default_str, pin_decls,
                   default, _pins, _pins_by_name, applied, parsed, given,
                   outfile, error, exit_status, arg_data, arg_default>>

WriteHeader == Write("header", <<<<"HEADER", mcutype>>>>, "io_pins")
WriteIoPins == Write("io_pins", write_io_pins(_pins), "io_lines")
WriteIoLines == Write("io_lines", write_io_lines(_pins_by_name), "io_port_setup")
WriteIoPortSetup == Write("io_port_setup", <<<<"IO_PORT_SETUP">>>>, "io_ports")
WriteIoPorts == Write("io_ports", write_io_ports(_pins), "footer")
WriteFooter == Write("footer", <<<<"FOOTER">>>>, "close")

\* the end of the with block, and of main()
CloseOutfile ==
    /\ pc = "close"
    /\ outfile' = "closed"
    /\ exit_status' = 0
    /\ pc' = "done"
    /\ UNCHANGED <<mcutype, types, scores, choice, default_str, pin_decls,
                   default, _pins, _pins_by_name, applied, parsed, given,
                   board, error, arg_data, arg_default>>

\* A direct call of Pins._parse_data_str(arg_data, arg_default)
ParseDataStr ==
    /\ pc = "call"
    /\ parsed' = _parse_data_str(arg_data, arg_default)
    /\ pc' = "returned"
    /\ UNCHANGED <<mcutype, types, scores, choice, default_str, pin_decls,
                   default, _pins, _pins_by_name, applied, given, board,
                   outfile, error, exit_status, arg_data, arg_default>>

-----------------------------------------------------------------------------
(* Inputs *)

MaxPins == 2
MaxTokens == 3
MaxDefaultTokens == 5

\* Part identifiers and catalog patterns
Names == SeqsUpTo(NameChars, MaxNameLen)
\* os.listdir gives distinct file names, in an order of its own
Catalogs == {c \in SeqsUpTo(Names, MaxCatalog) : IsInjective(c)}

\* "a, b, c" from its tokens
Text(tokens) == Join(<<",", " ">>, tokens)

tOUTPUT == <<"O","U","T","P","U","T">>
tInput == <<"i","n","p","u","t">>
tAF1 == <<"A","F","1">>
tAf3 == <<"a","f","3">>
tAFx == <<"A","F","x">>
tSTARTLOW == <<"S","T","A","R","T","L","O","W">>
tStartHigh == <<"s","t","a","r","t","h","i","g","h">>
tPUSHPULL == <<"P","U","S","H","P","U","L","L">>
tOPENDRAIN == <<"O","P","E","N","D","R","A","I","N">>
tLowSpeed == <<"l","o","w","s","p","e","e","d">>
tHIGHSPEED == <<"H","I","G","H","S","P","E","E","D">>
tFLOATING == <<"F","L","O","A","T","I","N","G">>
tPULLUP == <<"P","U","L","L","U","P">>
tPA0 == <<"P","A","0">>
tPA1 == <<"P","A","1">>
tPB0 == <<"P","B","0">>
tPAx == <<"P","A","x">>
tFOO == <<"F","O","O">>
tEmpty == <<>>
nLed1 == <<"l","e","d","1">>
nBtn == <<"b","t","n">>
nPB0 == <<"P","B","0">>
\* position tokens at and beyond the ends of a port
tPAneg1 == <<"P", "A", "-", "1">>
tPAover == <<"P", "A">> \o IntStr(pins_per_port)
tPAunder == <<"P", "A", "-">> \o IntStr(pins_per_port + 1)

\* Requests and catalogs of the full run
MainRequests == {<<"f", "f">>}
MainCatalogs == {<< <<"f", "f">>, <<"f", "x">> >>, << <<"x", "x">> >>}

DefaultStrings ==
    {Text(<<tOUTPUT, tSTARTLOW, tPUSHPULL, tHIGHSPEED, tFLOATING>>),
     Text(<<tAF1, tSTARTLOW, tOPENDRAIN, tLowSpeed, tPULLUP>>),
     Text(<<tOUTPUT, tSTARTLOW, tPUSHPULL, tHIGHSPEED>>),
     Text(<<tPA0, tOUTPUT, tSTARTLOW, tPUSHPULL, tHIGHSPEED, tFLOATING>>)}

PinStrings ==
    {Text(<<tPA0, tOUTPUT>>),
     Text(<<tPA0, tAf3, tStartHigh>>),
     Text(<<tPB0, tInput, tPULLUP>>),
     Text(<<tPAneg1, tOPENDRAIN>>),
     Text(<<tPA0, tOUTPUT, tAf3>>),
     Text(<<tOUTPUT>>),
     Text(<<tPA1, tFOO>>),
     Text(<<tPAunder>>)}

PinNames == {nLed1, nBtn, nPB0}

\* board_def['pins']: a mapping, so its keys are distinct
PinDecls ==
    {d \in SeqsUpTo(PinNames \X PinStrings, MaxPins) :
        \A i, j \in 1..Len(d) : i # j => d[i][1] # d[j][1]}

ParseTokens == {tOUTPUT, tInput, tAf3, tAFx, tStartHigh, tPA0, tPAover, tPAx, tFOO, tEmpty}
ParseInputs == {Text(t) : t \in {u \in SeqsUpTo(ParseTokens, MaxTokens) : IsInjective(u)}}

DefaultTokens == {tOUTPUT, tAF1, tSTARTLOW, tPUSHPULL, tLowSpeed, tFLOATING, tPA0, tFOO}
DefaultInputs ==
    {Text(t) : t \in {u \in SeqsUpTo(DefaultTokens, MaxDefaultTokens) : IsInjective(u)}}

-----------------------------------------------------------------------------
(* Specifications *)

InitRun ==
    /\ scores = <<>>
    /\ choice = NoChoice
    /\ default = EmptyDict
    /\ _pins = EmptyDict
    /\ _pins_by_name = EmptyDict
    /\ applied = 0
    /\ parsed = NoParse
    /\ given = <<>>
    /\ board = <<>>
    /\ outfile = "unopened"
    /\ error = NoError
    /\ exit_status = -1

\* The run of main() on a board definition
Init ==
    /\ mcutype \in MainRequests
    /\ types \in MainCatalogs
    /\ default_str \in DefaultStrings
    /\ pin_decls \in PinDecls
    /\ arg_data = <<>>
    /\ arg_default = FALSE
    /\ pc = "start"
    /\ InitRun

Next ==
    \/ ResolveMcu
    \/ SeedPins
    \/ ApplyPin
    \/ OpenOutfile
    \/ WriteHeader
    \/ WriteIoPins
    \/ WriteIoLines
    \/ WriteIoPortSetup
    \/ WriteIoPorts
    \/ WriteFooter
    \/ CloseOutfile

Spec == Init /\ [][Next]_vars

\* The resolver alone, on every request and catalog within the bounds
InitMatch ==
    /\ mcutype \in Names
    /\ types \in Catalogs
    /\ default_str = <<>>
    /\ pin_decls = <<>>
    /\ arg_data = <<>>
    /\ arg_default = FALSE
    /\ pc = "start"
    /\ InitRun

NextMatch == ResolveMcu

SpecMatch == InitMatch /\ [][NextMatch]_vars

\* The parser alone, in either context
InitParse ==
    /\ mcutype = <<>>
    /\ types = <<>>
    /\ default_str = <<>>
    /\ pin_decls = <<>>
    /\ arg_data \in ParseInputs
    /\ arg_default \in BOOLEAN
    /\ pc = "call"
    /\ InitRun

NextParse == ParseDataStr

SpecParse == InitParse /\ [][NextParse]_vars

\* The parser in the default context
InitDefault ==
    /\ mcutype = <<>>
    /\ types = <<>>
    /\ default_str = <<>>
    /\ pin_decls = <<>>
    /\ arg_data \in DefaultInputs
    /\ arg_default = TRUE
    /\ pc = "call"
    /\ InitRun

SpecDefault == InitDefault /\ [][NextParse]_vars

-----------------------------------------------------------------------------
(* Properties of the resolver, checked under SpecMatch *)

\* The score rule of the specification: the wildcard test looks at the
\* pattern CHARACTER of the position
RuleStep(tc, xc) == IF tc = xc THEN 1 ELSE IF xc = "x" THEN 0 ELSE -1

RECURSIVE RuleScoreFrom(_, _, _)
RuleScoreFrom(test, x, i) ==
    IF i > Min(Len(test), Len(x)) THEN 0
    ELSE RuleStep(test[i], x[i]) + RuleScoreFrom(test, x, i + 1)

Resolved == pc # "start"

\* C1: the score of the request against every catalog pattern is +1 for
\* each equal position, 0 for each differing position whose pattern character
\* is 'x', and -1 for each other differing position.
C1_ScoreFollowsWildcardRule ==
    Resolved =>
        \A i \in 1..Len(types) : scores[i] = RuleScoreFrom(mcutype, types[i], 1)

\* The first catalog position that holds the maximum score
BestIndex ==
    CHOOSE i \in 1..Len(types) :
        /\ \A j \in 1..Len(types) : scores[j] <= scores[i]
        /\ \A j \in 1..(i - 1) : scores[j] < scores[i]

\* C2: for a non-empty catalog the resolver selects the entry with the
\* maximum score, the first one in catalog order when several share it, and
\* fails with NoMatchingProfile and status 1, selecting nothing, when that
\* maximum is <= 0.
C2_BestFirstOrFail ==
    (Resolved /\ types # <<>>) =>
        IF scores[BestIndex] <= 0
        THEN /\ choice = NoChoice
             /\ error = "NoMatchingProfile"
             /\ exit_status = 1
        ELSE /\ choice = types[BestIndex]
             /\ error = NoError

\* Two entries share a positive maximum and the earlier one is selected
C2_TieWitness ==
    /\ Resolved
    /\ \E i, j \in 1..Len(types) :
        /\ i < j
        /\ scores[i] = scores[j]
        /\ scores[i] > 0
        /\ \A k \in 1..Len(types) : scores[k] <= scores[i]
        /\ choice = types[i]

-----------------------------------------------------------------------------
(* Properties of the parser, checked under SpecParse and SpecDefault *)

Returned == pc = "returned"

\* The elements the loop sees: split, stripped, uppercased
Elms(str) == [i \in 1..Len(Split(str)) |-> Upper(Strip(Split(str)[i]))]

IsAfKeyword(e) == SliceTo(e, 2) = <<"A", "F">> /\ ParseInt(SliceFrom(e, 2)).ok

\* A token that sets the mode: a mode keyword or anything that starts with AF
SetsMode(e) == e \in ModeKeywords \/ SliceTo(e, 2) = <<"A", "F">>

\* A token the parser accepts when it stands alone
Accepted(e) ==
    \/ e # <<>> /\ PositionTest(e) = "yes"
    \/ e \in ModeKeywords \cup OdKeywords \cup OtypeKeywords \cup OspeedKeywords
             \cup PupdKeywords
    \/ IsAfKeyword(e)

HasModeAndAf(es) ==
    /\ \E i \in 1..Len(es) : es[i] \in ModeKeywords
    /\ \E i \in 1..Len(es) : IsAfKeyword(es[i])

\* The position of the second token that sets the mode
SecondModeIndex(es) ==
    CHOOSE k \in 1..Len(es) :
        /\ SetsMode(es[k])
        /\ Cardinality({j \in 1..(k - 1) : SetsMode(es[j])}) = 1

\* C3 as stated: a string with a mode keyword and an AF keyword always ends
\* in ConflictingMode, whatever the other tokens and their places.
C3_AlwaysConflictingMode ==
    (Returned /\ HasModeAndAf(Elms(arg_data))) => parsed.status = "ConflictingMode"

\* C3 amended: such a string never returns attributes; the failure is
\* ConflictingMode when every token before the second mode-setting token is
\* one the parser accepts (otherwise the earlier token fails first).
C3_NeverReturnsAndConflictWhenReached ==
    (Returned /\ HasModeAndAf(Elms(arg_data))) =>
        /\ parsed.status # "ok"
        /\ (\A j \in 1..(SecondModeIndex(Elms(arg_data)) - 1) : Accepted(Elms(arg_data)[j]))
               => parsed.status = "ConflictingMode"

\* AF first, a position token between, the mode keyword last
C3_AfThenModeWitness ==
    /\ Returned
    /\ parsed.status = "ConflictingMode"
    /\ \E i, j, k \in 1..Len(Elms(arg_data)) :
        /\ i < j /\ j < k
        /\ IsAfKeyword(Elms(arg_data)[i])
        /\ PositionTest(Elms(arg_data)[j]) = "yes"
        /\ Elms(arg_data)[k] \in ModeKeywords

RequiredKeys == {"mode", "od", "otype", "ospeed", "pupd"}

\* The required families that have a token in the string
FamiliesOf(es) ==
    {f \in RequiredKeys :
        \E i \in 1..Len(es) :
            \/ f = "mode" /\ (es[i] \in ModeKeywords \/ IsAfKeyword(es[i]))
            \/ f = "od" /\ es[i] \in OdKeywords
            \/ f = "otype" /\ es[i] \in OtypeKeywords
            \/ f = "ospeed" /\ es[i] \in OspeedKeywords
            \/ f = "pupd" /\ es[i] \in PupdKeywords}

OnlyKnownKeywords(es) == \A i \in 1..Len(es) : Accepted(es[i])

\* C4 as stated: a default string of known keywords that lacks one of the
\* five families fails with IncompleteDefault, and success needs all five.
C4_MissingFamilyIsIncompleteDefault ==
    Returned =>
        /\ parsed.status = "ok" => FamiliesOf(Elms(arg_data)) = RequiredKeys
        /\ (OnlyKnownKeywords(Elms(arg_data)) /\ FamiliesOf(Elms(arg_data)) # RequiredKeys)
               => parsed.status = "IncompleteDefault"

\* C4 amended: success needs all five families and gives a dict with a value
\* for each; a default string of known keywords with at most one
\* mode-setting token that lacks a family fails with IncompleteDefault.
C4_DefaultCompleteOrIncomplete ==
    Returned =>
        /\ parsed.status = "ok" =>
               /\ FamiliesOf(Elms(arg_data)) = RequiredKeys
               /\ RequiredKeys \subseteq DOMAIN parsed.pin
        /\ ( /\ OnlyKnownKeywords(Elms(arg_data))
             /\ Cardinality({i \in 1..Len(Elms(arg_data)) : SetsMode(Elms(arg_data)[i])}) <= 1
             /\ FamiliesOf(Elms(arg_data)) # RequiredKeys )
               => parsed.status = "IncompleteDefault"

\* Four families given, the pull family missing
C4_MissingPullWitness ==
    /\ Returned
    /\ OnlyKnownKeywords(Elms(arg_data))
    /\ FamiliesOf(Elms(arg_data)) = RequiredKeys \ {"pupd"}
    /\ parsed.status = "IncompleteDefault"

-----------------------------------------------------------------------------
(* Properties of the build and of the run, checked under Spec *)

\* The table exists: the default was accepted and every position seeded
TableSeeded == _pins # EmptyDict

\* Pins.__init__ has returned
BuildComplete == pc \notin {"start", "default", "exit"} /\ applied = Len(pin_decls)

\* The run stopped inside the loop over the declarations, at declaration
\* applied + 1
FailedInLoop == pc = "exit" /\ TableSeeded

\* What the string of applied declaration j gives: the attributes it sets
Given(j) == given[j]

\* The table position <<port, list index>> an applied declaration wrote to
SlotOf(j) ==
    <<Given(j).port,
      IF Given(j).num >= 0 THEN Given(j).num + 1 ELSE pins_per_port + Given(j).num + 1>>

\* The applied declarations that wrote to position <<p, k>>
WritersOf(p, k) == {j \in 1..applied : SlotOf(j) = <<p, k>>}

LastOf(S) == CHOOSE j \in S : \A i \in S : i <= j

AttributeKeys == {"mode", "od", "otype", "ospeed", "pupd", "af"}

\* C5: once Pins.__init__ has returned the table holds one list of exactly
\* pins_per_port records for every profile port and for no other port, and
\* every record has a value for every field.
C5_TableComplete ==
    BuildComplete =>
        /\ DOMAIN _pins = Range(ports)
        /\ \A p \in DOMAIN _pins :
            /\ Len(_pins[p]) = pins_per_port
            /\ \A k \in 1..Len(_pins[p]) : DOMAIN _pins[p][k] = PinFields

\* The build returned after it applied two declarations
C5_TwoAppliedWitness == BuildComplete /\ applied >= 2

\* C6: the record at a position that several declarations target is the
\* record of the last of them: its name, and each attribute the value its own
\* string gives or else the default value.
C6_LastDeclarationWins ==
    TableSeeded =>
        \A p \in DOMAIN _pins : \A k \in 1..Len(_pins[p]) :
            WritersOf(p, k) # {} =>
                LET last == LastOf(WritersOf(p, k)) IN
                /\ _pins[p][k].name = Upper(pin_decls[last][1])
                /\ _pins[p][k].port = Given(last).port
                /\ _pins[p][k].num = Given(last).num
                /\ \A f \in AttributeKeys :
                       _pins[p][k][f] = IF f \in DOMAIN Given(last) THEN Given(last)[f]
                                        ELSE default[f]

\* Two declarations wrote to one position; the first gave an initial level
\* other than the default's and the last gave none
C6_OverrideWitness ==
    /\ pc = "done"
    /\ \E p \in DOMAIN _pins : \E k \in 1..Len(_pins[p]) :
        \E i, j \in WritersOf(p, k) :
            /\ i < j
            /\ j = LastOf(WritersOf(p, k))
            /\ "od" \in DOMAIN Given(i)
            /\ Given(i).od # default.od
            /\ "od" \notin DOMAIN Given(j)

\* C7: a position token is accepted only with a profile port and
\* 0 <= n < pins_per_port, so every applied declaration has such a position
\* and the record at table position (p, i) always has port = p and num = i.
C7_RecordsMatchTheirPosition ==
    TableSeeded =>
        /\ \A j \in 1..applied :
               /\ Given(j).port \in Range(ports)
               /\ 0 <= Given(j).num /\ Given(j).num < pins_per_port
        /\ \A p \in DOMAIN _pins : \A k \in 1..Len(_pins[p]) :
               /\ _pins[p][k].port = p
               /\ _pins[p][k].num = k - 1

\* A name that reads as a position token of the profile
NameEncodesPosition(name) == PositionTest(Upper(name)) = "yes"

\* A string that parses and holds no position token
ParsesWithoutPosition(str) ==
    /\ _parse_data_str(str, FALSE).status = "ok"
    /\ "port" \notin DOMAIN _parse_data_str(str, FALSE).pin

C9_ValidationBeforeOutput ==
    /\ error # NoError =>
           /\ outfile = "unopened"
           /\ board = <<>>
           /\ exit_status = 1
    /\ (outfile # "unopened" \/ board # <<>>) =>
           /\ error = NoError
           /\ choice # NoChoice
           /\ RequiredKeys \subseteq DOMAIN default
           /\ applied = Len(pin_decls)

\* A declaration failed after an earlier one had been applied
C9_LateFailureWitness ==
    /\ pc = "exit"
    /\ applied >= 1
    /\ error = "UnknownKeyword"
    /\ board = <<>>

\* C10 as stated: at a ConflictingMode failure of a declaration every
\* position still holds its synthesized default record.
C10_NoMutationBeforeFailure ==
    (FailedInLoop /\ error = "ConflictingMode") => _pins = SeedTable(default)

\* C10 amended: a declaration with both a mode and an AF keyword is never
\* applied, and at its ConflictingMode failure the table holds what the
\* declarations before it left: a position none of them wrote to holds its
\* synthesized default record, the others the record of their last writer,
\* and the failing declaration has no record.
C10_OnlyEarlierDeclarationsApplied ==
    /\ \A j \in 1..applied : ~HasModeAndAf(Elms(pin_decls[j][2]))
    /\ (FailedInLoop /\ error = "ConflictingMode") =>
           /\ \A p \in DOMAIN _pins : \A k \in 1..Len(_pins[p]) :
                  IF WritersOf(p, k) = {}
                  THEN _pins[p][k] = SeedTable(default)[p][k]
                  ELSE _pins[p][k].name = Upper(pin_decls[LastOf(WritersOf(p, k))][1])
           /\ Upper(pin_decls[applied + 1][1]) \notin DOMAIN _pins_by_name

\* The failure came after a declaration had changed the table
C10_EarlierAppliedWitness ==
    /\ FailedInLoop
    /\ error = "ConflictingMode"
    /\ applied >= 1
    /\ _pins # SeedTable(default)

====
